---- MODULE Spec2Model ----
(***************************************************************************)
(* Model of the in-browser branch comparison core: the in-memory           *)
(* filesystem MemoryFS, the ingestion loadFilesIntoFs, the tree walker     *)
(* listTreeFiles, the orchestrator generateDiff, and the two handlers of   *)
(* App.js that call them.                                                  *)
(*                                                                         *)
(* JavaScript strings are sequences of one-character strings, so that the  *)
(* regular-expression replacements, split and startsWith of the source are *)
(* computed character by character.                                        *)
(***************************************************************************)
EXTENDS Integers, Sequences, FiniteSets, TLC

VARIABLES
    files,      \* MemoryFS.files: Map from key to Uint8Array
    dirs,       \* MemoryFS.dirs: Set of directory paths
    gitCache,   \* module-level gitCache object (the keys the reader has put in it)
    last,       \* the name of the last call made
    lastWrite,  \* the last writeFile call whose path no later call has touched
    loadCur,    \* the file list of the last completed loadFilesIntoFs call
    loadPrev,   \* the file list of the completed loadFilesIntoFs call before it
    nOps,       \* number of calls made so far
    repo,       \* the repository the reader sees: refs, commits, trees, blobs
                \* and the objects whose read fails
    call,       \* the generateDiff call made: its arguments and what it did
    treeWalk,   \* the listTreeFiles call made: its root and what it returned
    isLoaded,       \* isLoadedAtom
    branches,       \* branchesAtom
    baseBranch,     \* baseBranchAtom
    compareBranch,  \* compareBranchAtom
    diffs,          \* diffsAtom
    loadingDiffs,   \* loadingDiffsAtom
    error,          \* the error state of App
    upload,     \* the handleFolderUpload in flight: where it is and on which files
    diffTask    \* the handleGenerateDiff in flight: where it is and on which branches

fsVars == <<files, dirs, gitCache, last, lastWrite, loadCur, loadPrev, nOps>>

diffVars == <<repo, call, treeWalk>>

appVars ==
    <<isLoaded, branches, baseBranch, compareBranch, diffs, loadingDiffs, error,
      upload, diffTask>>

vars == <<fsVars, diffVars, appVars>>

-----------------------------------------------------------------------------
(* Bounds *)

MaxOps == 3
MaxDataLen == 1
MaxFiles == 2
MaxBad == 1

-----------------------------------------------------------------------------
(* Values *)

\* JavaScript undefined / null passed where a path is expected.
Undefined == <<"undefined">>

EmptyMap == [k \in {} |-> <<>>]

MapGetHas(m, k) == k \in DOMAIN m

MapSet(m, k, v) == [x \in (DOMAIN m) \cup {k} |-> IF x = k THEN v ELSE m[x]]

MapDelete(m, k) == [x \in (DOMAIN m) \ {k} |-> m[x]]

-----------------------------------------------------------------------------
(* String primitives *)

\* String.prototype.startsWith
StartsWith(s, prefix) ==
    /\ Len(prefix) <= Len(s)
    /\ SubSeq(s, 1, Len(prefix)) = prefix

\* String.prototype.substring(n)
Substring(s, n) == SubSeq(s, n + 1, Len(s))

RECURSIVE SplitFrom(_, _)
SplitFrom(s, cur) ==
    IF s = <<>> THEN <<cur>>
    ELSE IF Head(s) = "/" THEN <<cur>> \o SplitFrom(Tail(s), <<>>)
    ELSE SplitFrom(Tail(s), Append(cur, Head(s)))

\* String.prototype.split('/')
Split(s) == SplitFrom(s, <<>>)

\* Array.prototype.filter(Boolean) on an array of strings
FilterBoolean(parts) == SelectSeq(parts, LAMBDA x : x # <<>>)

RECURSIVE ReplaceSlashRuns(_)
\* String(path).replace(/\/+/g, '/')
ReplaceSlashRuns(s) ==
    IF Len(s) <= 1 THEN s
    ELSE IF s[1] = "/" /\ s[2] = "/" THEN ReplaceSlashRuns(Tail(s))
    ELSE <<s[1]>> \o ReplaceSlashRuns(Tail(s))

RECURSIVE RemoveTrailingSlashes(_)
\* String(path).replace(/\/+$/, '')
RemoveTrailingSlashes(s) ==
    IF Len(s) > 0 /\ s[Len(s)] = "/"
    THEN RemoveTrailingSlashes(SubSeq(s, 1, Len(s) - 1))
    ELSE s

\* String(path).replace(/\/+$/, '') || '/'
TrimOrRoot(s) ==
    IF RemoveTrailingSlashes(s) = <<>> THEN <<"/">> ELSE RemoveTrailingSlashes(s)

-----------------------------------------------------------------------------
(* MemoryFS *)

\* new Uint8Array(data): every element is stored modulo 2^8
Uint8Array(data) == [i \in DOMAIN data |-> data[i] % 256]

\* faulty variant of ReadKey: the path is looked up as given
ReadKeyRaw(path) == path

\* the key readFile looks up
ReadKey(path) == ReplaceSlashRuns(path)

\* faulty variant of WriteKey: the normalisation of mkdir and stat
WriteKeyTrimmed(path) == TrimOrRoot(path)

\* the key writeFile stores under
WriteKey(path) == ReplaceSlashRuns(path)

RECURSIVE ParentDirsFrom(_, _, _)
ParentDirsFrom(parts, i, current) ==
    IF i > Len(parts) - 1 THEN {}
    ELSE {current \o <<"/">> \o parts[i]}
         \cup ParentDirsFrom(parts, i + 1, current \o <<"/">> \o parts[i])

\* the paths _addParentDirs adds to dirs
AddParentDirs(filePath) == ParentDirsFrom(FilterBoolean(Split(filePath)), 1, <<>>)

\* TextDecoder().decode on the bytes of the model: a byte below 0x80 is its
\* own code point, any other byte of ByteVals is never valid UTF-8 and
\* becomes U+FFFD
TextDecode(bytes) == [i \in DOMAIN bytes |-> IF bytes[i] < 128 THEN bytes[i] ELSE 65533]

ENOENT == [err |-> "ENOENT", data |-> <<>>]

\* promises.readFile: the value returned or the error thrown
FsReadFile(f, path, encoding) ==
    IF path = Undefined THEN ENOENT
    ELSE IF ~MapGetHas(f, ReadKey(path)) THEN ENOENT
    ELSE IF encoding = "utf8" THEN [err |-> "none", data |-> TextDecode(f[ReadKey(path)])]
    ELSE [err |-> "none", data |-> f[ReadKey(path)]]

\* faulty variant of FsWriteFiles: the bytes are appended to the stored ones
FsWriteAppends(f, path, data) ==
    IF path = Undefined THEN f
    ELSE MapSet(f, WriteKey(path),
                (IF MapGetHas(f, WriteKey(path)) THEN f[WriteKey(path)] ELSE <<>>)
                    \o Uint8Array(data))

\* promises.writeFile: files afterwards
FsWriteFiles(f, path, data) ==
    IF path = Undefined THEN f
    ELSE MapSet(f, WriteKey(path), Uint8Array(data))

\* promises.writeFile: dirs afterwards
FsWriteDirs(d, path) ==
    IF path = Undefined THEN d
    ELSE d \cup AddParentDirs(WriteKey(path))

\* promises.readdir: the entries returned
FsReaddir(f, d, path) ==
    IF path = Undefined THEN {}
    ELSE LET normalizedPath == TrimOrRoot(path)
             prefix == IF normalizedPath = <<"/">> THEN <<"/">>
                       ELSE normalizedPath \o <<"/">>
             NameOf(p) == Split(Substring(p, Len(prefix)))[1]
             FromFiles == {NameOf(p) : p \in {q \in DOMAIN f : StartsWith(q, prefix)}}
             FromDirs == {NameOf(p) : p \in {q \in d : q # normalizedPath
                                                        /\ StartsWith(q, prefix)}}
         IN  (FromFiles \cup FromDirs) \ {<<>>}

\* promises.stat: hasChildren
HasChildren(f, d, normalizedPath) ==
    \E p \in (DOMAIN f) \cup d : StartsWith(p, normalizedPath \o <<"/">>)

\* promises.stat: the descriptor returned or the error thrown
FsStat(f, d, path) ==
    IF path = Undefined THEN [err |-> "ENOENT", type |-> "none", size |-> 0]
    ELSE LET normalizedPath == TrimOrRoot(path)
         IN  IF normalizedPath \in d THEN [err |-> "none", type |-> "dir", size |-> 0]
             ELSE IF MapGetHas(f, normalizedPath)
                  THEN [err |-> "none", type |-> "file", size |-> Len(f[normalizedPath])]
             ELSE IF HasChildren(f, d, normalizedPath)
                  THEN [err |-> "none", type |-> "dir", size |-> 0]
             ELSE [err |-> "ENOENT", type |-> "none", size |-> 0]

\* promises.stat: dirs afterwards
FsStatDirs(f, d, path) ==
    IF path = Undefined THEN d
    ELSE LET normalizedPath == TrimOrRoot(path)
         IN  IF /\ normalizedPath \notin d
                /\ ~MapGetHas(f, normalizedPath)
                /\ HasChildren(f, d, normalizedPath)
             THEN d \cup {normalizedPath}
             ELSE d

\* promises.mkdir: dirs afterwards
FsMkdir(d, path) ==
    IF path = Undefined THEN d ELSE d \cup {TrimOrRoot(path)}

\* promises.unlink: files afterwards
FsUnlink(f, path) == MapDelete(f, path)

\* promises.rename: files afterwards (a stored Uint8Array is always truthy)
FsRename(f, oldPath, newPath) ==
    IF MapGetHas(f, oldPath)
    THEN MapDelete(MapSet(f, newPath, f[oldPath]), oldPath)
    ELSE f

\* faulty variant of ClearFiles: the stored files are kept
ClearFilesKept(f) == f

\* clear(): files afterwards
ClearFiles(f) == EmptyMap

\* clear(): dirs afterwards
ClearDirs(d) == {<<"/">>}

\* clear()
FsClear(f, d) == [files |-> ClearFiles(f), dirs |-> ClearDirs(d)]

-----------------------------------------------------------------------------
(* Ingestion *)

\* files[0].webkitRelativePath.split('/')[0]
RootPrefix(fileList) == Split(fileList[1].webkitRelativePath)[1]

\* file.webkitRelativePath.substring(rootPrefix.length)
RelativePath(fileList, i) ==
    Substring(fileList[i].webkitRelativePath, Len(RootPrefix(fileList)))

\* the entries the loop skips with continue
IsSkipped(relativePath) == relativePath = <<>> \/ relativePath = <<"/">>

\* relativePath.startsWith('/') ? relativePath : '/' + relativePath
AbsolutePath(relativePath) ==
    IF StartsWith(relativePath, <<"/">>) THEN relativePath
    ELSE <<"/">> \o relativePath

RECURSIVE LoadLoop(_, _, _)
\* the for loop of loadFilesIntoFs from entry i on, on the state fs
LoadLoop(fs, fileList, i) ==
    IF i > Len(fileList) THEN fs
    ELSE IF IsSkipped(RelativePath(fileList, i)) THEN LoadLoop(fs, fileList, i + 1)
    ELSE LET path == AbsolutePath(RelativePath(fileList, i))
         IN  LoadLoop([files |-> FsWriteFiles(fs.files, path, fileList[i].bytes),
                       dirs |-> FsWriteDirs(fs.dirs, path)],
                      fileList, i + 1)

\* faulty variant of LoadFilesIntoFs: without the early return
LoadAlwaysClears(f, d, fileList) == LoadLoop(FsClear(f, d), fileList, 1)

\* loadFilesIntoFs: files and dirs afterwards
LoadFilesIntoFs(f, d, fileList) ==
    IF Len(fileList) = 0 THEN [files |-> f, dirs |-> d]
    ELSE LoadLoop(FsClear(f, d), fileList, 1)

-----------------------------------------------------------------------------
(* The repository reader (window.git) as generateDiff uses it *)

\* JavaScript null, as in baseFiles[filepath] || null
Null == "null"

\* git.resolveRef: the commit id, or the error thrown for a ref that is not there
ResolveRef(r, ref) ==
    IF ref \in DOMAIN r.refs THEN [ok |-> TRUE, oid |-> r.refs[ref]]
    ELSE [ok |-> FALSE, oid |-> Null]

\* faulty variant of ReadCommit: an unreadable commit is read all the same
ReadCommitUnchecked(r, oid) == [ok |-> TRUE, tree |-> r.commits[oid]]

\* git.readCommit: the commit's root tree, or the error thrown
ReadCommit(r, oid) ==
    IF oid \in r.bad THEN [ok |-> FALSE, tree |-> Null]
    ELSE [ok |-> TRUE, tree |-> r.commits[oid]]

\* git.readBlob followed by TextDecoder().decode, or the error thrown
ReadBlobText(r, oid) ==
    IF oid \in r.bad THEN [ok |-> FALSE, text |-> <<>>]
    ELSE [ok |-> TRUE, text |-> TextDecode(r.blobs[oid])]

-----------------------------------------------------------------------------
(* Tree walker *)

\* a JavaScript object used as a map: its own keys in insertion order
EmptyObject == [keys |-> <<>>, val |-> EmptyMap]

ObjectKeys(o) == o.keys

HasOwn(o, k) == k \in DOMAIN o.val

\* the property name that Object.prototype answers with an accessor
ProtoKey == <<"__proto__">>

\* o[k] = v, v a string: an own property is defined, except that assigning a
\* string to o.__proto__ runs the inherited setter, which ignores it
ObjectSet(o, k, v) ==
    IF k = ProtoKey THEN o
    ELSE [keys |-> IF HasOwn(o, k) THEN o.keys ELSE Append(o.keys, k),
          val |-> MapSet(o.val, k, v)]

\* prefix ? `${prefix}/${entry.path}` : entry.path
FullPath(prefix, entryPath) ==
    IF prefix # <<>> THEN prefix \o <<"/">> \o entryPath ELSE entryPath

RECURSIVE WalkEntries(_, _, _, _, _)
\* walkTree: the for loop over the entries of one tree from entry i on; w is
\* [ok, fileMap, reads], ok FALSE once a readTree has thrown
WalkEntries(r, tree, i, prefix, w) ==
    IF ~w.ok \/ i > Len(tree) THEN w
    ELSE LET entry == tree[i]
             fullPath == FullPath(prefix, entry.path)
         IN  IF entry.type = "blob"
             THEN WalkEntries(r, tree, i + 1, prefix,
                              [w EXCEPT !.fileMap = ObjectSet(@, fullPath, entry.oid)])
             ELSE IF entry.type = "tree"
             THEN LET w1 == [w EXCEPT !.reads = @ \cup {[kind |-> "tree", oid |-> entry.oid]}]
                  IN  IF entry.oid \in r.bad
                      THEN [w1 EXCEPT !.ok = FALSE]
                      ELSE WalkEntries(r, tree, i + 1, prefix,
                                       WalkEntries(r, r.trees[entry.oid], 1, fullPath, w1))
             ELSE WalkEntries(r, tree, i + 1, prefix, w)

\* listTreeFiles: walkTree(treeOid, '') on an empty fileMap
ListTreeFiles(r, treeOid) ==
    LET w0 == [ok |-> TRUE, fileMap |-> EmptyObject,
               reads |-> {[kind |-> "tree", oid |-> treeOid]}]
    IN  IF treeOid \in r.bad THEN [w0 EXCEPT !.ok = FALSE]
        ELSE WalkEntries(r, r.trees[treeOid], 1, <<>>, w0)

-----------------------------------------------------------------------------
(* Diff orchestrator *)

\* faulty variant of FilesOrEmpty: what the walk had collected when it threw
FilesOrPartial(walk) == walk.fileMap

\* baseFiles / compareFiles after the try block around listTreeFiles
FilesOrEmpty(walk) == IF walk.ok THEN walk.fileMap ELSE EmptyObject

\* faulty variant of SameCommit: the short cut is never taken
SameCommitNever(baseCommit, compareCommit) == FALSE

\* baseCommit === compareCommit
SameCommit(baseCommit, compareCommit) == baseCommit = compareCommit

\* files[filepath] || null
OidOrNull(fileMap, filepath) ==
    IF HasOwn(fileMap, filepath) THEN fileMap.val[filepath] ELSE Null

\* faulty variant of StatusOf: the two one-sided cases are swapped
StatusSwapped(baseOid, compareOid) ==
    IF compareOid = Null THEN "added"
    ELSE IF baseOid = Null THEN "deleted"
    ELSE "modified"

\* let status = 'modified'; if (!baseOid) ...; if (!compareOid) ...
StatusOf(baseOid, compareOid) ==
    IF compareOid = Null THEN "deleted"
    ELSE IF baseOid = Null THEN "added"
    ELSE "modified"

\* faulty variant of IsBinary: no text counts as binary
IsBinaryNever(text) == FALSE

\* text.includes('\0')
IsBinary(text) == \E i \in DOMAIN text : text[i] = 0

\* parsedPatch.length > 0 && parsedPatch[0].hunks.length > 0: the differencer
\* gives a hunk exactly when the two texts differ
HasHunks(baseText, compareText) == baseText # compareText

\* the blob of one side: '' when the side has no oid
SideText(r, oid) ==
    IF oid = Null THEN [ok |-> TRUE, text |-> <<>>] ELSE ReadBlobText(r, oid)

\* faulty variant of FetchSkips: a failed compare-side read does not skip
FetchSkipsBaseOnly(baseFetch, compareFetch) == ~baseFetch.ok

\* whether one of the two try blocks around readBlob ends in continue
FetchSkips(baseFetch, compareFetch) == ~baseFetch.ok \/ ~compareFetch.ok

\* new Set([...Object.keys(baseFiles), ...Object.keys(compareFiles)])
AllPaths(baseFiles, compareFiles) ==
    ObjectKeys(baseFiles)
        \o SelectSeq(ObjectKeys(compareFiles), LAMBDA k : ~HasOwn(baseFiles, k))

RECURSIVE DiffLoop(_, _, _, _, _, _)
\* the for loop over allPaths from path i on; acc is [result, reads]
DiffLoop(r, baseFiles, compareFiles, allPaths, i, acc) ==
    IF i > Len(allPaths) THEN acc
    ELSE LET filepath == allPaths[i]
             baseOid == OidOrNull(baseFiles, filepath)
             compareOid == OidOrNull(compareFiles, filepath)
             baseFetch == SideText(r, baseOid)
             compareFetch == SideText(r, compareOid)
             blobReads == {[kind |-> "blob", oid |-> o] :
                              o \in ({baseOid} \cup (IF baseFetch.ok THEN {compareOid} ELSE {}))
                                    \ {Null}}
             read == [acc EXCEPT !.reads = @ \cup blobReads]
             next(a) == DiffLoop(r, baseFiles, compareFiles, allPaths, i + 1, a)
         IN  IF baseOid = compareOid THEN next(acc)
             ELSE IF FetchSkips(baseFetch, compareFetch) THEN next(read)
             ELSE IF IsBinary(baseFetch.text) \/ IsBinary(compareFetch.text) THEN next(read)
             ELSE IF HasHunks(baseFetch.text, compareFetch.text)
             THEN next([read EXCEPT !.result =
                           Append(@, [filename |-> filepath,
                                      status |-> StatusOf(baseOid, compareOid)])])
             ELSE next(read)

NoCall ==
    [done |-> FALSE, base |-> "", compare |-> "", outcome |-> "none",
     result |-> <<>>, walked |-> FALSE, baseFiles |-> EmptyObject,
     compareFiles |-> EmptyObject, resolved |-> <<>>, reads |-> {}]

\* generateDiff: what the call returns or throws, and what it read on the way
GenerateDiff(r, base, compare) ==
    LET start == [NoCall EXCEPT !.done = TRUE, !.base = base,
                                !.compare = compare]
        Returned(c) == [c EXCEPT !.outcome = "returned"]
        Threw(c) == [c EXCEPT !.outcome = "threw"]
        baseRef == ResolveRef(r, base)
        compareRef == ResolveRef(r, compare)
        baseCommit == ReadCommit(r, baseRef.oid)
        compareCommit == ReadCommit(r, compareRef.oid)
        baseWalk == ListTreeFiles(r, baseCommit.tree)
        compareWalk == ListTreeFiles(r, compareCommit.tree)
        baseFiles == FilesOrEmpty(baseWalk)
        compareFiles == FilesOrEmpty(compareWalk)
        loop == DiffLoop(r, baseFiles, compareFiles, AllPaths(baseFiles, compareFiles), 1,
                         [result |-> <<>>, reads |-> {}])
        c1 == [start EXCEPT !.resolved = <<base>>]
        c2 == [start EXCEPT !.resolved = <<base, compare>>]
        c3 == [c2 EXCEPT !.reads = {[kind |-> "commit", oid |-> baseRef.oid]}]
        c4 == [c3 EXCEPT !.reads = @ \cup {[kind |-> "commit", oid |-> compareRef.oid]}]
    IN  IF base = "" \/ compare = "" THEN Returned(start)
        ELSE IF ~baseRef.ok THEN Threw(c1)
        ELSE IF ~compareRef.ok THEN Threw(c2)
        ELSE IF SameCommit(baseRef.oid, compareRef.oid) THEN Returned(c2)
        ELSE IF ~baseCommit.ok THEN Threw(c3)
        ELSE IF ~compareCommit.ok THEN Threw(c4)
        ELSE Returned([c4 EXCEPT !.walked = TRUE,
                                 !.baseFiles = baseFiles,
                                 !.compareFiles = compareFiles,
                                 !.reads = @ \cup baseWalk.reads \cup compareWalk.reads
                                             \cup loop.reads,
                                 !.result = loop.result])

-----------------------------------------------------------------------------
(* Inputs of the filesystem specification *)

RECURSIVE SeqsUpTo(_, _)
\* all sequences over S of length at most n
SeqsUpTo(S, n) ==
    IF n = 0 THEN {<<>>}
    ELSE SeqsUpTo(S, n - 1)
         \cup {Append(s, x) : s \in {t \in SeqsUpTo(S, n - 1) : Len(t) = n - 1}, x \in S}

\* canonical paths, paths with a doubled or trailing slash, a relative path,
\* and undefined
PathInputs ==
    { <<"/">>, <<"/", "a">>, <<"/", "b">>, <<"/", "a", "/", "b">>,
      <<"/", "/", "a">>, <<"/", "a", "/">>, <<"a">>,
      <<"/", "a", "/", "/", "b">>, <<"/", "/", "a", "/", "b">>, Undefined }

\* array elements: two bytes and a number that is not a byte
ElemVals == {255, 300}

DataInputs == SeqsUpTo(ElemVals, MaxDataLen)

IsBytes(data) == \A i \in DOMAIN data : data[i] \in 0..255

Encodings == {"buffer", "utf8"}

\* uploaded files: files under the root folder r, a file under another first
\* segment, and the empty webkitRelativePath of a file chosen without a folder
UploadFiles ==
    { [webkitRelativePath |-> <<"r", "/", "a">>, bytes |-> <<104>>],
      [webkitRelativePath |-> <<"r", "/", "a">>, bytes |-> <<105>>],
      [webkitRelativePath |-> <<"r", "/", "a", "/", "b">>, bytes |-> <<104>>],
      [webkitRelativePath |-> <<"r", "/", "b">>, bytes |-> <<>>],
      [webkitRelativePath |-> <<"q", "/", "b">>, bytes |-> <<105>>],
      [webkitRelativePath |-> <<>>, bytes |-> <<104>>] }

FileLists == SeqsUpTo(UploadFiles, MaxFiles)

CacheKeys == {"PackfileCache"}

NoWrite == [path |-> <<>>, data |-> <<>>, set |-> FALSE]

NoLoad == [done |-> FALSE, list |-> <<>>]

-----------------------------------------------------------------------------
(* Inputs of the diff specification: the repositories generateDiff runs on *)

\* branch main and branch rel point at the same commit; no ref is named gone
Refs == ("main" :> "c1") @@ ("dev" :> "c2") @@ ("rel" :> "c1") @@ ("master" :> "c2")

Commits == ("c1" :> "t1") @@ ("c2" :> "t2")

\* the text h, the text w, and a content with a NUL byte
Blobs == ("bH" :> <<104>>) @@ ("bW" :> <<119>>) @@ ("bZ" :> <<104, 0>>)

Objects == {"c1", "c2", "t1", "t2", "t3", "bH", "bW", "bZ"}

\* entry names, in the order a git tree lists them
NameOrder == <<"a", "b">>

\* what a root tree may hold under a name: nothing, a blob, or the tree t3
RootChoices == {"absent", "bH", "bW", "bZ", "t3"}

\* what the tree t3 may hold under a name
SubChoices == {"absent", "bW"}

\* the tree whose entry named NameOrder[i] is choice[i]
TreeOf(choice) ==
    SelectSeq([i \in DOMAIN NameOrder |->
                  [path |-> <<NameOrder[i]>>, oid |-> choice[i],
                   type |-> IF choice[i] \in DOMAIN Blobs THEN "blob" ELSE "tree"]],
              LAMBDA e : e.oid # "absent")

RepoOf(t1, t2, t3, bad) ==
    [refs |-> Refs, commits |-> Commits,
     trees |-> ("t1" :> t1) @@ ("t2" :> t2) @@ ("t3" :> t3),
     blobs |-> Blobs, bad |-> bad]

Repos ==
    {RepoOf(TreeOf(x), TreeOf(y), TreeOf(z), bad) :
        x \in [DOMAIN NameOrder -> RootChoices],
        y \in [DOMAIN NameOrder -> RootChoices],
        z \in [DOMAIN NameOrder -> SubChoices],
        bad \in {B \in SUBSET Objects : Cardinality(B) <= MaxBad}}

NoRepo == RepoOf(<<>>, <<>>, <<>>, {})

\* the tree graphs listTreeFiles walks: entry names in git's order, the name
\* __proto__ among them; the tree t3 may hang under several names
WalkNameOrder == <<"__proto__", "a", "b">>

WalkRootChoices == {"absent", "bH", "bW", "t3"}

WalkSubChoices == {"absent", "bH", "bW"}

WalkTreeOf(choice) ==
    SelectSeq([i \in DOMAIN WalkNameOrder |->
                  [path |-> <<WalkNameOrder[i]>>, oid |-> choice[i],
                   type |-> IF choice[i] \in DOMAIN Blobs THEN "blob" ELSE "tree"]],
              LAMBDA e : e.oid # "absent")

WalkRepos ==
    {RepoOf(WalkTreeOf(x), <<>>, WalkTreeOf(z), bad) :
        x \in [DOMAIN WalkNameOrder -> WalkRootChoices],
        z \in [DOMAIN WalkNameOrder -> WalkSubChoices],
        bad \in {B \in SUBSET {"t1", "t3"} : Cardinality(B) <= MaxBad}}

WalkRoots == {"t1", "t3"}

NoWalk == [done |-> FALSE, root |-> "", ok |-> TRUE, fileMap |-> EmptyObject]

BranchInputs == {"", "main", "dev", "rel", "gone"}

-----------------------------------------------------------------------------
(* App.js *)

RECURSIVE Includes(_, _)
\* String.prototype.includes
Includes(s, sub) ==
    IF Len(s) < Len(sub) THEN FALSE
    ELSE StartsWith(s, sub) \/ Includes(Tail(s), sub)

\* Array.from(files).some(f => f.webkitRelativePath.includes('/.git/'))
HasGit(fileList) ==
    \E i \in DOMAIN fileList :
        Includes(fileList[i].webkitRelativePath, <<"/", ".", "g", "i", "t", "/">>)

SeqIncludes(list, x) == \E i \in DOMAIN list : list[i] = x

\* gitBranches.includes('main') ? 'main' : gitBranches.includes('master') ? ...
DefaultBase(gitBranches) ==
    IF SeqIncludes(gitBranches, "main") THEN "main"
    ELSE IF SeqIncludes(gitBranches, "master") THEN "master"
    ELSE gitBranches[1]

\* getBranches: the branches listed, or [] when git.listBranches throws
GetBranches(listed) ==
    IF listed.ok THEN listed ELSE [ok |-> TRUE, branches |-> <<>>]

RECURSIVE NextEntry(_, _)
\* the first entry from i on that the loop of loadFilesIntoFs does not skip
NextEntry(fileList, i) ==
    IF i > Len(fileList) \/ ~IsSkipped(RelativePath(fileList, i)) THEN i
    ELSE NextEntry(fileList, i + 1)

\* faulty variant of LoadingAfter: setLoadingDiffs(false) at the end of the
\* try block and not in a finally
LoadingAfterTryOnly(threw) == threw

\* loadingDiffs after the finally block of a handler, whether or not the
\* awaited call threw
LoadingAfter(threw) == FALSE

NoGitMessage == "The selected folder does not contain a .git directory."

ParseMessage == "Failed to parse Git repository."

DiffMessage == "Failed to generate diff between branches."

NoUpload == [pc |-> "idle", list |-> <<>>, i |-> 0, listed |-> "none"]

NoDiffTask == [pc |-> "idle", base |-> "", compare |-> ""]

\* the folders a user picks: none, one without a .git directory, repositories
GitFile(name) ==
    [webkitRelativePath |-> <<"r", "/", ".", "g", "i", "t", "/", name>>, bytes |-> <<104>>]

AppFileLists ==
    { <<>>,
      <<[webkitRelativePath |-> <<"r", "/", "a">>, bytes |-> <<104>>]>>,
      <<GitFile("H")>>,
      <<GitFile("H"), [webkitRelativePath |-> <<"r", "/", "a">>, bytes |-> <<105>>]>>,
      <<[webkitRelativePath |-> <<"r">>, bytes |-> <<>>], GitFile("H"), GitFile("c")>> }

\* what git.listBranches does on the loaded files: it lists branches, or throws
ListOutcomes ==
    { [ok |-> TRUE, branches |-> <<"dev", "main", "rel">>],
      [ok |-> TRUE, branches |-> <<"dev", "master">>],
      [ok |-> TRUE, branches |-> <<"rel", "dev">>],
      [ok |-> TRUE, branches |-> <<>>],
      [ok |-> FALSE, branches |-> <<>>] }

AppRepos ==
    {RepoOf(TreeOf(<<"bH", "absent">>), TreeOf(<<"bW", "t3">>), TreeOf(<<"bW", "absent">>), bad) :
        bad \in {{}, {"c2"}, {"t3"}, {"bW"}}}

\* generateDiff on every repository and every pair of branch names the
\* application can call it with
AppDiffs ==
    [r \in AppRepos |->
        [base \in DOMAIN Refs |->
            [compare \in DOMAIN Refs |-> GenerateDiff(r, base, compare)]]]

-----------------------------------------------------------------------------
(* Filesystem specification: any sequence of MemoryFS calls and loads *)

SameFile(p, q) == p # Undefined /\ q # Undefined /\ ReadKey(p) = ReadKey(q)

\* lastWrite after a call that touches the given paths
Untouched(paths) ==
    IF lastWrite.set /\ \E q \in paths : SameFile(q, lastWrite.path)
    THEN NoWrite ELSE lastWrite

FsVarsInit ==
    /\ files = EmptyMap
    /\ dirs = {<<"/">>}
    /\ gitCache = {}
    /\ last = "none"
    /\ lastWrite = NoWrite
    /\ loadCur = NoLoad
    /\ loadPrev = NoLoad
    /\ nOps = 0

\* store.js and the useState of App
AppVarsInit ==
    /\ isLoaded = FALSE
    /\ branches = <<>>
    /\ baseBranch = ""
    /\ compareBranch = ""
    /\ diffs = <<>>
    /\ loadingDiffs = FALSE
    /\ error = Null
    /\ upload = NoUpload
    /\ diffTask = NoDiffTask

FsInit ==
    /\ FsVarsInit
    /\ AppVarsInit
    /\ repo = NoRepo
    /\ call = NoCall
    /\ treeWalk = NoWalk

ReadFile(path, encoding) ==
    /\ nOps < MaxOps
    /\ last' = "readFile"
    /\ nOps' = nOps + 1
    /\ UNCHANGED <<diffVars, appVars>>
    /\ UNCHANGED <<files, dirs, gitCache, lastWrite, loadCur, loadPrev>>

WriteFile(path, data) ==
    /\ nOps < MaxOps
    /\ files' = FsWriteFiles(files, path, data)
    /\ dirs' = FsWriteDirs(dirs, path)
    /\ last' = "writeFile"
    /\ lastWrite' = IF path = Undefined THEN lastWrite
                    ELSE [path |-> path, data |-> data, set |-> TRUE]
    /\ nOps' = nOps + 1
    /\ UNCHANGED <<diffVars, appVars>>
    /\ UNCHANGED <<gitCache, loadCur, loadPrev>>

Readdir(path) ==
    /\ nOps < MaxOps
    /\ last' = "readdir"
    /\ nOps' = nOps + 1
    /\ UNCHANGED <<diffVars, appVars>>
    /\ UNCHANGED <<files, dirs, gitCache, lastWrite, loadCur, loadPrev>>

Stat(path) ==
    /\ nOps < MaxOps
    /\ dirs' = FsStatDirs(files, dirs, path)
    /\ last' = "stat"
    /\ nOps' = nOps + 1
    /\ UNCHANGED <<diffVars, appVars>>
    /\ UNCHANGED <<files, gitCache, lastWrite, loadCur, loadPrev>>

Mkdir(path) ==
    /\ nOps < MaxOps
    /\ dirs' = FsMkdir(dirs, path)
    /\ last' = "mkdir"
    /\ nOps' = nOps + 1
    /\ UNCHANGED <<diffVars, appVars>>
    /\ UNCHANGED <<files, gitCache, lastWrite, loadCur, loadPrev>>

Unlink(path) ==
    /\ nOps < MaxOps
    /\ files' = FsUnlink(files, path)
    /\ last' = "unlink"
    /\ lastWrite' = Untouched({path})
    /\ nOps' = nOps + 1
    /\ UNCHANGED <<diffVars, appVars>>
    /\ UNCHANGED <<dirs, gitCache, loadCur, loadPrev>>

Rename(oldPath, newPath) ==
    /\ nOps < MaxOps
    /\ files' = FsRename(files, oldPath, newPath)
    /\ last' = "rename"
    /\ lastWrite' = Untouched({oldPath, newPath})
    /\ nOps' = nOps + 1
    /\ UNCHANGED <<diffVars, appVars>>
    /\ UNCHANGED <<dirs, gitCache, loadCur, loadPrev>>

Clear ==
    /\ nOps < MaxOps
    /\ files' = FsClear(files, dirs).files
    /\ dirs' = FsClear(files, dirs).dirs
    /\ last' = "clear"
    /\ lastWrite' = NoWrite
    /\ nOps' = nOps + 1
    /\ UNCHANGED <<diffVars, appVars>>
    /\ UNCHANGED <<gitCache, loadCur, loadPrev>>

\* a reader call memoizes into the cache object it was handed
ReaderFillsCache(key) ==
    /\ nOps < MaxOps
    /\ key \notin gitCache
    /\ gitCache' = gitCache \cup {key}
    /\ last' = "reader"
    /\ nOps' = nOps + 1
    /\ UNCHANGED <<diffVars, appVars>>
    /\ UNCHANGED <<files, dirs, lastWrite, loadCur, loadPrev>>

Load(fileList) ==
    /\ nOps < MaxOps
    /\ files' = LoadFilesIntoFs(files, dirs, fileList).files
    /\ dirs' = LoadFilesIntoFs(files, dirs, fileList).dirs
    /\ gitCache' = IF Len(fileList) = 0 THEN gitCache ELSE {}
    /\ last' = "load"
    /\ lastWrite' = IF Len(fileList) = 0 THEN lastWrite ELSE NoWrite
    /\ loadCur' = [done |-> TRUE, list |-> fileList]
    /\ loadPrev' = loadCur
    /\ nOps' = nOps + 1
    /\ UNCHANGED <<diffVars, appVars>>

FsNext ==
    \/ \E p \in PathInputs, e \in Encodings : ReadFile(p, e)
    \/ \E p \in PathInputs, b \in DataInputs : WriteFile(p, b)
    \/ \E p \in PathInputs : Readdir(p)
    \/ \E p \in PathInputs : Stat(p)
    \/ \E p \in PathInputs : Mkdir(p)
    \/ \E p \in PathInputs : Unlink(p)
    \/ \E p \in PathInputs, q \in PathInputs : Rename(p, q)
    \/ Clear
    \/ \E k \in CacheKeys : ReaderFillsCache(k)
    \/ \E fl \in FileLists : Load(fl)

FsSpec == FsInit /\ [][FsNext]_vars

-----------------------------------------------------------------------------
(* Diff specification: one generateDiff call on any of the repositories *)

DiffInit ==
    /\ FsVarsInit
    /\ AppVarsInit
    /\ repo \in Repos
    /\ call = NoCall
    /\ treeWalk = NoWalk

GenerateDiffCall(base, compare) ==
    /\ ~call.done
    /\ call' = GenerateDiff(repo, base, compare)
    /\ UNCHANGED <<repo, treeWalk, fsVars, appVars>>

DiffNext == \E b \in BranchInputs, c \in BranchInputs : GenerateDiffCall(b, c)

DiffSpec == DiffInit /\ [][DiffNext]_vars

-----------------------------------------------------------------------------
(* Walk specification: one listTreeFiles call on any of the tree graphs *)

WalkInit ==
    /\ FsVarsInit
    /\ AppVarsInit
    /\ repo \in WalkRepos
    /\ call = NoCall
    /\ treeWalk = NoWalk

ListTreeFilesCall(treeOid) ==
    /\ ~treeWalk.done
    /\ treeWalk' = [done |-> TRUE, root |-> treeOid,
                    ok |-> ListTreeFiles(repo, treeOid).ok,
                    fileMap |-> ListTreeFiles(repo, treeOid).fileMap]
    /\ UNCHANGED <<repo, call, fsVars, appVars>>

WalkNext == \E t \in WalkRoots : ListTreeFilesCall(t)

WalkSpec == WalkInit /\ [][WalkNext]_vars

-----------------------------------------------------------------------------
(* Application specification: the handlers of App.js and the awaits they *)
(* are suspended at                                                      *)

AppInit ==
    /\ FsVarsInit
    /\ AppVarsInit
    /\ repo \in AppRepos
    /\ call = NoCall
    /\ treeWalk = NoWalk

\* handleFolderUpload up to its first await: the file input is only rendered
\* while isLoaded is false
HandleFolderUpload(fileList) ==
    /\ ~isLoaded
    /\ IF Len(fileList) = 0
       THEN UNCHANGED <<error, isLoaded, loadingDiffs, files, dirs, gitCache, upload>>
       ELSE IF ~HasGit(fileList)
       THEN /\ error' = NoGitMessage
            /\ UNCHANGED <<isLoaded, loadingDiffs, files, dirs, gitCache, upload>>
       ELSE /\ error' = Null
            /\ isLoaded' = TRUE
            /\ loadingDiffs' = TRUE
            /\ files' = FsClear(files, dirs).files
            /\ dirs' = FsClear(files, dirs).dirs
            /\ gitCache' = {}
            /\ upload' = [pc |-> "loading", list |-> fileList,
                          i |-> NextEntry(fileList, 1), listed |-> "none"]
    /\ UNCHANGED <<branches, baseBranch, compareBranch, diffs, diffTask>>
    /\ UNCHANGED <<last, lastWrite, loadCur, loadPrev, nOps, diffVars>>

\* file.arrayBuffer() settles for the entry the loop is at: the entry is
\* written, or the rejection ends the handler in its catch and finally
UploadWrite(readable) ==
    /\ upload.pc = "loading"
    /\ upload.i <= Len(upload.list)
    /\ IF readable
       THEN LET path == AbsolutePath(RelativePath(upload.list, upload.i))
            IN  /\ files' = FsWriteFiles(files, path, upload.list[upload.i].bytes)
                /\ dirs' = FsWriteDirs(dirs, path)
                /\ upload' = [upload EXCEPT !.i = NextEntry(upload.list, upload.i + 1)]
                /\ UNCHANGED <<error, loadingDiffs>>
       ELSE /\ error' = ParseMessage
            /\ loadingDiffs' = LoadingAfter(TRUE)
            /\ upload' = [upload EXCEPT !.pc = "done"]
            /\ UNCHANGED <<files, dirs>>
    /\ UNCHANGED <<isLoaded, branches, baseBranch, compareBranch, diffs, diffTask>>
    /\ UNCHANGED <<gitCache, last, lastWrite, loadCur, loadPrev, nOps, diffVars>>

\* loadFilesIntoFs has returned and getBranches settles: the rest of the try
\* block and the finally
UploadGetBranches(listed) ==
    /\ upload.pc = "loading"
    /\ upload.i > Len(upload.list)
    /\ LET got == GetBranches(listed)
       IN  IF got.ok
           THEN /\ branches' = got.branches
                /\ IF Len(got.branches) > 0
                   THEN /\ baseBranch' = DefaultBase(got.branches)
                        /\ compareBranch' = got.branches[1]
                   ELSE UNCHANGED <<baseBranch, compareBranch>>
                /\ UNCHANGED error
           ELSE /\ error' = ParseMessage
                /\ UNCHANGED <<branches, baseBranch, compareBranch>>
    /\ loadingDiffs' = LoadingAfter(~GetBranches(listed).ok)
    /\ upload' = [upload EXCEPT !.pc = "done",
                                !.listed = IF listed.ok THEN "listed" ELSE "threw"]
    /\ UNCHANGED <<isLoaded, diffs, diffTask, fsVars, diffVars>>

\* the two selects of the header
SelectBaseBranch(b) ==
    /\ isLoaded
    /\ SeqIncludes(branches, b)
    /\ baseBranch' = b
    /\ UNCHANGED <<isLoaded, branches, compareBranch, diffs, loadingDiffs, error,
                   upload, diffTask, fsVars, diffVars>>

SelectCompareBranch(b) ==
    /\ isLoaded
    /\ SeqIncludes(branches, b)
    /\ compareBranch' = b
    /\ UNCHANGED <<isLoaded, branches, baseBranch, diffs, loadingDiffs, error,
                   upload, diffTask, fsVars, diffVars>>

\* faulty variant of ButtonDisabled: the button is always enabled
ButtonNeverDisabled == FALSE

\* disabled={loadingDiffs} of the Generate Diff button
ButtonDisabled == loadingDiffs

\* handleGenerateDiff up to its await: the button is rendered once isLoaded
\* and disabled while loadingDiffs
HandleGenerateDiff ==
    /\ isLoaded
    /\ ~ButtonDisabled
    /\ IF baseBranch = "" \/ compareBranch = ""
       THEN UNCHANGED <<loadingDiffs, diffTask>>
       ELSE /\ loadingDiffs' = TRUE
            /\ diffTask' = [pc |-> "running", base |-> baseBranch,
                            compare |-> compareBranch]
    /\ UNCHANGED <<isLoaded, branches, baseBranch, compareBranch, diffs, error,
                   upload, fsVars, diffVars>>

\* generateDiff settles: the rest of the try block, the catch, the finally
GenerateDiffSettles ==
    /\ diffTask.pc = "running"
    /\ call' = AppDiffs[repo][diffTask.base][diffTask.compare]
    /\ IF call'.outcome = "returned"
       THEN diffs' = call'.result /\ UNCHANGED error
       ELSE error' = DiffMessage /\ UNCHANGED diffs
    /\ loadingDiffs' = LoadingAfter(call'.outcome = "threw")
    /\ diffTask' = NoDiffTask
    /\ UNCHANGED <<isLoaded, branches, baseBranch, compareBranch, upload, fsVars, repo,
                   treeWalk>>

AppNext ==
    \/ \E fl \in AppFileLists : HandleFolderUpload(fl)
    \/ \E readable \in BOOLEAN : UploadWrite(readable)
    \/ \E listed \in ListOutcomes : UploadGetBranches(listed)
    \/ \E b \in DOMAIN Refs : SelectBaseBranch(b)
    \/ \E b \in DOMAIN Refs : SelectCompareBranch(b)
    \/ HandleGenerateDiff
    \/ GenerateDiffSettles

AppSpec == AppInit /\ [][AppNext]_vars

\* every awaited promise settles: file.arrayBuffer(), the reader's
\* listBranches, and generateDiff
AppLiveSpec ==
    /\ AppSpec
    /\ WF_vars(\E readable \in BOOLEAN : UploadWrite(readable))
    /\ WF_vars(\E listed \in ListOutcomes : UploadGetBranches(listed))
    /\ WF_vars(GenerateDiffSettles)

-----------------------------------------------------------------------------
(* Claims about MemoryFS and loadFilesIntoFs, under FsSpec *)

\* C1: after writeFile(p, b) with b a byte sequence, and as long as no write,
\* rename, unlink or clear has touched p since, readFile(p) returns exactly b.
C1_WriteReadRoundTrip ==
    (lastWrite.set /\ IsBytes(lastWrite.data))
        => FsReadFile(files, lastWrite.path, "buffer")
               = [err |-> "none", data |-> lastWrite.data]

\* a non-empty byte sequence written under a path with a doubled or trailing
\* slash, still readable after a rename of another path
C1_Witness ==
    /\ lastWrite.set
    /\ IsBytes(lastWrite.data)
    /\ Len(lastWrite.data) > 0
    /\ ReadKey(lastWrite.path) # lastWrite.path
    /\ last = "rename"
    /\ FsReadFile(files, lastWrite.path, "buffer").data = lastWrite.data

\* the directory paths above p: "/" and every strict prefix of p's segments
ProperAncestors(p) ==
    LET parts == FilterBoolean(Split(p))
        Join(k) == ParentDirsFrom(SubSeq(parts, 1, k + 1), 1, <<>>)
    IN  IF p = Undefined \/ parts = <<>> THEN {}
        ELSE {<<"/">>} \cup UNION {Join(k) : k \in 1..(Len(parts) - 1)}

\* C2: every proper ancestor of every stored file path and of every recorded
\* directory path is itself a recorded directory.
C2_AncestorsRecorded ==
    \A p \in (DOMAIN files) \cup dirs : ProperAncestors(p) \subseteq dirs

\* the keys a file list is stored under by loadFilesIntoFs
Supplies(fileList) ==
    IF fileList = <<>> THEN {}
    ELSE {ReplaceSlashRuns(AbsolutePath(RelativePath(fileList, i))) :
             i \in {j \in 1..Len(fileList) : ~IsSkipped(RelativePath(fileList, j))}}

\* no file of the previous load is left that the last load does not supply
NoLeakage ==
    /\ DOMAIN files \subseteq Supplies(loadCur.list)
    /\ \A p \in Supplies(loadPrev.list) \ Supplies(loadCur.list) :
           FsReadFile(files, p, "buffer") = ENOENT

\* C3 as stated: right after loadFilesIntoFs(B) completes, following a
\* completed loadFilesIntoFs(A), no file of A is left unless B supplies it.
C3_Original == (last = "load" /\ loadPrev.done) => NoLeakage

\* C3 amended: the same for every non-empty B.
C3_NoLeakageNonEmpty ==
    (last = "load" /\ loadPrev.done /\ loadCur.list # <<>>) => NoLeakage

\* a second, non-empty load that supplies files and drops a file of the first
C3_Witness ==
    /\ last = "load"
    /\ loadPrev.done
    /\ Supplies(loadCur.list) # {}
    /\ Supplies(loadPrev.list) \ Supplies(loadCur.list) # {}
    /\ files # EmptyMap

\* C4: if old has stored content, then after rename(old, new) reading new
\* returns that content and old, when different from new, is absent; if old
\* has no stored content, rename changes nothing.
C4_RenameMovesContent ==
    [][\A o, n \in PathInputs \ {Undefined} :
          Rename(o, n) =>
              IF FsReadFile(files, o, "buffer").err = "none"
              THEN /\ FsReadFile(files', n, "buffer") = FsReadFile(files, o, "buffer")
                   /\ (n # o => FsReadFile(files', o, "buffer") = ENOENT)
              ELSE files' = files /\ dirs' = dirs]_vars

\* the segments of a path: what lies between its slashes
Segments(p) == FilterBoolean(Split(p))

RECURSIVE JoinPath(_)
JoinPath(parts) ==
    IF parts = <<>> THEN <<>> ELSE <<"/">> \o Head(parts) \o JoinPath(Tail(parts))

\* the canonical form of a path: absolute, single slashes, no trailing slash
Canonical(p) == IF Segments(p) = <<>> THEN <<"/">> ELSE JoinPath(Segments(p))

\* a path with every run of slashes made one slash
CollapsedPath(p) ==
    (IF StartsWith(p, <<"/">>) THEN <<"/">> ELSE <<>>)
        \o (IF Segments(p) = <<>> THEN <<>> ELSE Tail(JoinPath(Segments(p))))
        \o (IF Segments(p) # <<>> /\ p[Len(p)] = "/" THEN <<"/">> ELSE <<>>)

\* p has stored content: the store holds bytes under p's normalized path
StoredContent(f, p) == p # Undefined /\ CollapsedPath(p) \in DOMAIN f

\* the names of the direct children of p among the stored and recorded paths
ChildNames(f, d, p) ==
    {Segments(q)[Len(Segments(p)) + 1] :
        q \in {x \in (DOMAIN f) \cup d : /\ Len(Segments(x)) > Len(Segments(p))
                                         /\ StartsWith(Segments(x), Segments(p))}}

\* C12: readdir(p) returns exactly the names of the direct children of p: the
\* first segment, below p, of every stored file path and recorded directory
\* path strictly below p; nothing below p gives the empty result.
C12_ReaddirDirectChildren ==
    [][\A p \in PathInputs \ {Undefined} :
          Readdir(p) => FsReaddir(files, dirs, p) = ChildNames(files, dirs, p)]_vars

\* p is a directory: recorded, or some stored or recorded path starts with p/
IsDirectory(f, d, p) ==
    \/ Canonical(p) \in d
    \/ \E q \in (DOMAIN f) \cup d : StartsWith(q, Canonical(p) \o <<"/">>)

\* C13: stat(p) reports a directory of size 0 when p is a directory, a file
\* with the stored byte length when p has stored content, and fails with
\* ENOENT exactly when p is neither.
C13_StatResult ==
    [][\A p \in PathInputs \ {Undefined} :
          Stat(p) =>
              LET r == FsStat(files, dirs, p)
              IN  /\ IsDirectory(files, dirs, p)
                        => r = [err |-> "none", type |-> "dir", size |-> 0]
                  /\ StoredContent(files, p)
                        => r = [err |-> "none", type |-> "file",
                                size |-> Len(files[CollapsedPath(p)])]
                  /\ r.err = "ENOENT"
                        <=> (~IsDirectory(files, dirs, p) /\ ~StoredContent(files, p))]_vars

\* p is a recorded directory, in whatever form it was recorded
Recorded(d, p) == \E q \in d : Canonical(q) = Canonical(p)

\* the name of p and the directory p lies in
NameOf(p) == Segments(p)[Len(Segments(p))]

ParentOf(p) ==
    Canonical(JoinPath(SubSeq(Segments(p), 1, Len(Segments(p)) - 1)))

\* C14: when stat(p) reports a directory that is not recorded (only paths
\* below p make it one), p is recorded afterwards and readdir of p's parent
\* lists p's name; in every other case stat changes neither files nor dirs.
C14_StatRecordsImplied ==
    [][\A p \in PathInputs \ {Undefined} :
          Stat(p) =>
              /\ files' = files
              /\ IF FsStat(files, dirs, p).type = "dir" /\ ~Recorded(dirs, p)
                 THEN /\ Recorded(dirs', p)
                      /\ dirs \subseteq dirs'
                      /\ NameOf(p) \in FsReaddir(files', dirs', ParentOf(p))
                 ELSE dirs' = dirs]_vars

\* C15: readFile throws ENOENT when the path is undefined or null or has no
\* stored content, and returns the stored content, decoded when utf8 is
\* asked for, for every other path.
C15_ReadFileErrors ==
    [][last' = "readFile" =>
          \A p \in PathInputs, e \in Encodings :
              ReadFile(p, e) =>
                  LET r == FsReadFile(files, p, e)
                  IN  IF ~StoredContent(files, p) THEN r = ENOENT
                      ELSE /\ r.err = "none"
                           /\ r.data = IF e = "utf8"
                                       THEN TextDecode(files[CollapsedPath(p)])
                                       ELSE files[CollapsedPath(p)]]_vars

\* a read after a file was stored under a path given with a doubled slash
C15_Witness ==
    /\ last = "readFile"
    /\ lastWrite.set
    /\ lastWrite.path # CollapsedPath(lastWrite.path)
    /\ Len(lastWrite.data) > 0
    /\ StoredContent(files, lastWrite.path)

\* absolute, no doubled slash, no trailing slash except for the root
IsCanonical(p) == p = Canonical(p)

\* C16: every key of the stored-file map and every recorded directory path
\* is in canonical form.
C16_CanonicalKeys == \A p \in (DOMAIN files) \cup dirs : IsCanonical(p)

\* C17: loadFilesIntoFs on an empty collection changes neither the stored
\* files nor the recorded directories nor the reader cache.
C17_EmptyLoadNoOp ==
    [][Load(<<>>) => (files' = files /\ dirs' = dirs /\ gitCache' = gitCache)]_vars

\* an empty load on a filesystem with a file, a directory and a filled cache
C17_Witness ==
    /\ last = "load"
    /\ loadCur = [done |-> TRUE, list |-> <<>>]
    /\ files # EmptyMap
    /\ dirs # {<<"/">>}
    /\ gitCache # {}

\* C18: a second mkdir(p), or a second writeFile(p, b) with the same bytes,
\* leaves the stored files and recorded directories as the first call left
\* them.
C18_Idempotent ==
    [][/\ last' = "mkdir" =>
             \A p \in PathInputs :
                 Mkdir(p) => FsMkdir(dirs', p) = dirs'
       /\ last' = "writeFile" =>
             \A p \in PathInputs, b \in DataInputs :
                 WriteFile(p, b) => /\ FsWriteFiles(files', p, b) = files'
                                    /\ FsWriteDirs(dirs', p) = dirs']_vars

\* a write of non-empty data under a directory, then a mkdir of a path with
\* a doubled slash
C18_Witness ==
    /\ last = "mkdir"
    /\ lastWrite.set
    /\ Len(lastWrite.data) > 0
    /\ AddParentDirs(WriteKey(lastWrite.path)) # {}
    /\ \E p \in dirs : ~IsCanonical(p)

\* C22: no path is at once a stored file and a recorded directory: whenever
\* readFile(p) succeeds, stat(p) does not report a directory.
C22_FileNeverDirectory ==
    /\ (DOMAIN files) \cap dirs = {}
    /\ \A p \in PathInputs \ {Undefined} :
           FsReadFile(files, p, "buffer").err = "none"
               => FsStat(files, dirs, p).type # "dir"

-----------------------------------------------------------------------------
(* Claims about listTreeFiles and generateDiff, under DiffSpec *)

\* both branch names are given and resolve
BothResolve ==
    /\ call.done
    /\ call.base \in DOMAIN repo.refs
    /\ call.compare \in DOMAIN repo.refs

BaseCommitId == repo.refs[call.base]

CompareCommitId == repo.refs[call.compare]

BaseTreeId == repo.commits[BaseCommitId]

CompareTreeId == repo.commits[CompareCommitId]

\* the call gets as far as walking the two trees
WalkStage ==
    /\ BothResolve
    /\ BaseCommitId # CompareCommitId
    /\ {BaseCommitId, CompareCommitId} \cap repo.bad = {}

RECURSIVE TreesFrom(_)
\* the trees at and below tree t
TreesFrom(t) ==
    {t} \cup UNION {TreesFrom(repo.trees[t][i].oid) :
                       i \in {j \in DOMAIN repo.trees[t] : repo.trees[t][j].type = "tree"}}

\* some tree read of the walk from t throws
WalkFails(t) == TreesFrom(t) \cap repo.bad # {}

RECURSIVE TreeIndex(_, _)
\* the blobs at and below tree t as <<full path, oid>> pairs
TreeIndex(t, prefix) ==
    LET tree == repo.trees[t]
        At(i) == FullPath(prefix, tree[i].path)
    IN  {<<At(i), tree[i].oid>> : i \in {j \in DOMAIN tree : tree[j].type = "blob"}}
        \cup UNION {TreeIndex(tree[i].oid, At(i)) :
                       i \in {j \in DOMAIN tree : tree[j].type = "tree"}}

\* a file map as a set of <<path, oid>> pairs
Pairs(fileMap) == {<<k, fileMap.val[k]>> : k \in DOMAIN fileMap.val}

Filenames == {call.result[i].filename : i \in DOMAIN call.result}

Statuses == {call.result[i].status : i \in DOMAIN call.result}

\* C5: in the result, a path is 'added' exactly when the base file set lacks
\* it, 'deleted' exactly when the compare file set lacks it, 'modified'
\* exactly when both have it with different content ids; a path with the same
\* content id on both sides is not in the result.
C5_StatusClassification ==
    (call.done /\ call.outcome = "returned") =>
        \A i \in DOMAIN call.result :
            LET p == call.result[i].filename
                status == call.result[i].status
                inBase == HasOwn(call.baseFiles, p)
                inCompare == HasOwn(call.compareFiles, p)
                differ == call.baseFiles.val[p] # call.compareFiles.val[p]
            IN  /\ status = "added" <=> ~inBase
                /\ status = "deleted" <=> ~inCompare
                /\ status = "modified" <=> (inBase /\ inCompare /\ differ)
                /\ ~(inBase /\ inCompare /\ ~differ)

\* a result with an added, a deleted and a modified path
C5_Witness ==
    /\ call.done
    /\ call.outcome = "returned"
    /\ Statuses = {"added", "deleted", "modified"}

\* C6: when both names resolve to the same commit id (the same name twice
\* included) the result is empty and no commit, tree or blob is read.
C6_SameCommitShortCircuit ==
    (BothResolve /\ BaseCommitId = CompareCommitId) =>
        /\ call.outcome = "returned"
        /\ call.result = <<>>
        /\ call.reads = {}

\* two different names of one commit, whose trees differ from nothing only
\* because they are never read: the commit object itself is unreadable
C6_Witness ==
    /\ BothResolve
    /\ call.base # call.compare
    /\ BaseCommitId = CompareCommitId
    /\ BaseCommitId \in repo.bad
    /\ call.result = <<>>

\* C7: a tree read that fails on one side leaves that side's file set empty,
\* the other side is still walked and used, and the call returns.
C7_TreeFailureEmptiesSide ==
    WalkStage =>
        /\ call.outcome = "returned"
        /\ [kind |-> "tree", oid |-> BaseTreeId] \in call.reads
        /\ [kind |-> "tree", oid |-> CompareTreeId] \in call.reads
        /\ IF WalkFails(BaseTreeId) THEN call.baseFiles = EmptyObject
           ELSE Pairs(call.baseFiles) = TreeIndex(BaseTreeId, <<>>)
        /\ IF WalkFails(CompareTreeId) THEN call.compareFiles = EmptyObject
           ELSE Pairs(call.compareFiles) = TreeIndex(CompareTreeId, <<>>)
        /\ (WalkFails(BaseTreeId) => Statuses \subseteq {"added"})
        /\ (WalkFails(CompareTreeId) => Statuses \subseteq {"deleted"})

\* the base walk collects a blob and then fails in a subtree; the compare
\* side is walked and all of the result comes from it
C7_Witness ==
    /\ WalkStage
    /\ repo.trees[BaseTreeId] # <<>>
    /\ repo.trees[BaseTreeId][1].type = "blob"
    /\ "t3" \in TreesFrom(BaseTreeId) \cap repo.bad
    /\ ~WalkFails(CompareTreeId)
    /\ call.baseFiles = EmptyObject
    /\ call.result # <<>>

\* the paths of either file set that generateDiff has to report: the content
\* ids differ, every blob needed is readable, no side has a NUL, the texts
\* differ
Reportable ==
    {p \in (DOMAIN call.baseFiles.val) \cup (DOMAIN call.compareFiles.val) :
        LET baseOid == OidOrNull(call.baseFiles, p)
            compareOid == OidOrNull(call.compareFiles, p)
            TextOf(oid) == IF oid = Null THEN <<>> ELSE TextDecode(repo.blobs[oid])
        IN  /\ baseOid # compareOid
            /\ {baseOid, compareOid} \cap repo.bad = {}
            /\ ~IsBinary(TextOf(baseOid))
            /\ ~IsBinary(TextOf(compareOid))
            /\ TextOf(baseOid) # TextOf(compareOid)}

\* the changed paths one of whose blob reads fails
Unreadable ==
    {p \in (DOMAIN call.baseFiles.val) \cup (DOMAIN call.compareFiles.val) :
        /\ OidOrNull(call.baseFiles, p) # OidOrNull(call.compareFiles, p)
        /\ {OidOrNull(call.baseFiles, p), OidOrNull(call.compareFiles, p)}
               \cap repo.bad # {}}

\* C8: a failing blob read omits its path and nothing else: the call returns
\* and reports, once each, exactly the paths it would report without it.
C8_BlobFailureOmitsPath ==
    WalkStage =>
        /\ call.outcome = "returned"
        /\ Filenames = Reportable
        /\ Len(call.result) = Cardinality(Filenames)

\* one changed path is dropped for its unreadable blob, another is reported
C8_Witness ==
    /\ WalkStage
    /\ Unreadable # {}
    /\ call.result # <<>>

\* C9: when a branch name does not resolve, or a commit that is read is
\* unreadable, the call throws and gives no result.
C9_StructuralFailureThrows ==
    (/\ call.done
     /\ call.base # ""
     /\ call.compare # ""
     /\ \/ ~BothResolve
        \/ /\ BaseCommitId # CompareCommitId
           /\ {BaseCommitId, CompareCommitId} \cap repo.bad # {})
        => (call.outcome = "threw" /\ call.result = <<>>)

\* the compare commit is unreadable after both names resolved and the base
\* commit was read
C9_Witness ==
    /\ BothResolve
    /\ call.outcome = "threw"
    /\ CompareCommitId \in repo.bad
    /\ [kind |-> "commit", oid |-> BaseCommitId] \in call.reads

\* a decoded text with a NUL character in it
HasNul(text) == 0 \in {text[i] : i \in DOMAIN text}

\* the decoded content of path p on one side, '' when the side lacks p
DecodedSide(fileMap, p) ==
    IF HasOwn(fileMap, p) THEN TextDecode(repo.blobs[fileMap.val[p]]) ELSE <<>>

\* the changed paths with a NUL character on the base or on the compare side
NulPaths ==
    {p \in (DOMAIN call.baseFiles.val) \cup (DOMAIN call.compareFiles.val) :
        /\ OidOrNull(call.baseFiles, p) # OidOrNull(call.compareFiles, p)
        /\ HasNul(DecodedSide(call.baseFiles, p)) \/ HasNul(DecodedSide(call.compareFiles, p))}

\* C11: a changed path whose decoded content has a NUL character on the base
\* side or on the compare side is never in the result, whatever its content
\* ids and its status.
C11_NulPathsOmitted ==
    (call.done /\ call.outcome = "returned") => Filenames \cap NulPaths = {}

\* paths with a NUL on one side are added, deleted or modified and every blob
\* is readable; another changed path is reported
C11_Witness ==
    /\ WalkStage
    /\ repo.bad = {}
    /\ NulPaths # {}
    /\ \E p \in NulPaths : HasOwn(call.baseFiles, p) /\ HasOwn(call.compareFiles, p)
    /\ call.result # <<>>

-----------------------------------------------------------------------------
(* Claims about listTreeFiles alone, under WalkSpec *)

\* C19: the mapping a walk returns holds every blob reachable from the root
\* under its full slash-joined path, each key once, and no other key.
C19_WalkReturnsEveryBlob ==
    (treeWalk.done /\ treeWalk.ok) =>
        /\ Pairs(treeWalk.fileMap) = TreeIndex(treeWalk.root, <<>>)
        /\ Len(ObjectKeys(treeWalk.fileMap)) = Cardinality(DOMAIN treeWalk.fileMap.val)
        /\ {ObjectKeys(treeWalk.fileMap)[i] : i \in DOMAIN ObjectKeys(treeWalk.fileMap)}
               = DOMAIN treeWalk.fileMap.val

-----------------------------------------------------------------------------
(* Claims about the load sequence of App.js, under AppSpec *)

\* C10: when the reader fails on the loaded files, the load sequence ends
\* with a failure shown to the caller, not with a successful load.
C10_ReaderFailureSurfaced ==
    (upload.pc = "done" /\ upload.listed = "threw") => error # Null

\* a core operation, loadFilesIntoFs or generateDiff, is started and not settled
InFlight == upload.pc = "loading" \/ diffTask.pc = "running"

\* the step calls loadFilesIntoFs or generateDiff
StartsOperation ==
    \/ \E fl \in AppFileLists : Len(fl) > 0 /\ HasGit(fl) /\ HandleFolderUpload(fl)
    \/ baseBranch # "" /\ compareBranch # "" /\ HandleGenerateDiff

\* C20: loadFilesIntoFs and generateDiff are only started when no core
\* operation is in flight, and a load and a diff are never in flight together.
C20_OneOperationInFlight ==
    [][/\ StartsOperation => ~InFlight
       /\ ~(upload'.pc = "loading" /\ diffTask'.pc = "running")]_vars

\* a diff is running on the files a finished load has written
C20_Witness ==
    /\ diffTask.pc = "running"
    /\ upload.pc = "done"
    /\ upload.listed = "listed"
    /\ files # EmptyMap
    /\ loadingDiffs

\* C21: whenever a handler has set loadingDiffs to true, loadingDiffs is
\* false again later, whether the awaited call returns or throws.
C21_LoadingEnds == loadingDiffs ~> ~loadingDiffs

\* a generateDiff that threw, with loadingDiffs set back to false
C21_Witness ==
    /\ call.done
    /\ call.outcome = "threw"
    /\ error = DiffMessage
    /\ upload.pc = "done"
    /\ diffTask.pc = "idle"
    /\ ~loadingDiffs

====
